---------------------------- MODULE Spec2Model ----------------------------
(***************************************************************************)
(* Model of slurm_state/sinfo_parser.py: the generator node_parser and the *)
(* table NODE_FIELD_MAP it dispatches on.                                  *)
(*                                                                         *)
(* A generator object is a small state machine: created (the call ran no   *)
(* code yet), suspended (parked at `yield res_node`), done (the for loop   *)
(* ran off the end) or failed (an exception left the body).  One Pull is   *)
(* one next() of the consumer: it runs the body from where it is parked to *)
(* the next yield, raise or return.                                        *)
(*                                                                         *)
(* JSON values are opaque to node_parser; a field value is represented by  *)
(* its JSON text.  A raw record (a decoded JSON object) is the sequence of *)
(* its <<key, value>> items in the order dict.items() gives them, with     *)
(* distinct keys.                                                          *)
(***************************************************************************)
EXTENDS Naturals, Sequences, FiniteSets, TLC

VARIABLES
    fieldMap,   \* the module-level dict bound to NODE_FIELD_MAP
    gen,        \* gen[p]: the generator object of parse p
    out         \* out[p]: what the consumer of p got from each next() so far

vars == <<fieldMap, gen, out>>

(***************************************************************************)
(* Bounds of the model.                                                    *)
(***************************************************************************)
MaxNodes == 2        \* node records per generated report
MaxFields == 2       \* fields per generated node record
MaxExtraPulls == 1   \* next() calls made after the generator has ended

Procs == {1, 2}

(***************************************************************************)
(* slurm_state.helpers.parser_helper: copy, ignore, rename.                *)
(* A translator is called as translator(k, v, res_node).                   *)
(***************************************************************************)
copy == [op |-> "copy", to |-> ""]

ignore == [op |-> "ignore", to |-> ""]

rename(new_key) == [op |-> "rename", to |-> new_key]

None == [op |-> "None", to |-> ""]

EmptyDict == [x \in {} |-> ""]

\* res_node[k] = v
DictSet(d, k, v) == (k :> v) @@ d

Apply(t, k, v, res) ==
    CASE t.op = "copy"   -> DictSet(res, k, v)
      [] t.op = "rename" -> DictSet(res, t.to, v)
      [] t.op = "ignore" -> res

(***************************************************************************)
(* NODE_FIELD_MAP, entry by entry.                                         *)
(***************************************************************************)
NodeFieldEntries ==
       "architecture" :> rename("arch")
    @@ "burstbuffer_network_address" :> ignore
    @@ "boards" :> ignore
    @@ "boot_time" :> ignore
    @@ "comment" :> copy
    @@ "cores" :> copy
    @@ "cpu_binding" :> ignore
    @@ "cpu_load" :> ignore
    @@ "cpus" :> copy
    @@ "extra" :> ignore
    @@ "free_memory" :> ignore
    @@ "last_busy" :> copy
    @@ "features" :> copy
    @@ "active_features" :> ignore
    @@ "gres" :> copy
    @@ "gres_drained" :> ignore
    @@ "gres_used" :> ignore
    @@ "mcs_label" :> ignore
    @@ "name" :> copy
    @@ "next_state_after_reboot" :> ignore
    @@ "address" :> rename("addr")
    @@ "hostname" :> ignore
    @@ "state" :> copy
    @@ "state_flags" :> ignore
    @@ "next_state_after_reboot_flags" :> ignore
    @@ "operating_system" :> ignore
    @@ "owner" :> ignore
    @@ "partitions" :> ignore
    @@ "port" :> ignore
    @@ "real_memory" :> rename("memory")
    @@ "reason" :> copy
    @@ "reason_changed_at" :> copy
    @@ "reason_set_by_user" :> ignore
    @@ "slurmd_start_time" :> ignore
    @@ "sockets" :> ignore
    @@ "threads" :> ignore
    @@ "temporary_disk" :> ignore
    @@ "weight" :> ignore
    @@ "tres" :> copy
    @@ "slurmd_version" :> ignore
    @@ "alloc_memory" :> ignore
    @@ "alloc_cpus" :> ignore
    @@ "idle_cpus" :> ignore
    @@ "tres_used" :> copy
    @@ "tres_weighted" :> ignore

\* The table with "address" kept under its own name, as the docstring's
\* expected output lists it.
NODE_FIELD_MAP_AddressKept == ("address" :> rename("address")) @@ NodeFieldEntries

\* The table with "hostname" renamed onto the key "name" already writes.
NODE_FIELD_MAP_HostnameAsName == ("hostname" :> rename("name")) @@ NodeFieldEntries

NODE_FIELD_MAP == NodeFieldEntries

(***************************************************************************)
(* The body of node_parser.                                                *)
(***************************************************************************)
\* translator = NODE_FIELD_MAP.get(k, <default>) with the default `ignore`
LookupDefaultIgnore(m, k) == IF k \in DOMAIN m THEN m[k] ELSE ignore

\* translator = NODE_FIELD_MAP.get(k, None)
Lookup(m, k) == IF k \in DOMAIN m THEN m[k] ELSE None

\* the unknown field is remembered as one to ignore before the raise
MapAfterMissMemo(m, k) == (k :> ignore) @@ m

\* the miss branch raises and leaves NODE_FIELD_MAP as it is
MapAfterMiss(m, k) == m

\* the message without the field
ErrorFieldOmitted(k) == ""

\* raise ValueError(f"Unknown field in sinfo node output: {k}")
ErrorField(k) == k

\* the error is swallowed and the loop goes on with the next record
PcAfterRaiseContinue == "suspended"

\* an exception that leaves the body of a generator finishes it
PcAfterRaise == "failed"

\* for k, v in src_node.items(): ... translator(k, v, res_node), from item i on
RECURSIVE Translate(_, _, _, _)
Translate(fields, i, res, m) ==
    IF i > Len(fields)
    THEN [ok |-> TRUE, res |-> res, field |-> ""]
    ELSE LET k == fields[i][1]
             v == fields[i][2]
             translator == Lookup(m, k)
         IN  IF translator = None
             THEN [ok |-> FALSE, res |-> res, field |-> k]
             ELSE Translate(fields, i + 1, Apply(translator, k, v, res), m)

Event(kind, rec, exc, field) == [kind |-> kind, rec |-> rec, exc |-> exc, field |-> field]

Raised(g, res, exc, field, m) ==
    [g  |-> [g EXCEPT !.pc = PcAfterRaise, !.res_node = res],
     ev |-> Event("raise", EmptyDict, exc, field),
     m  |-> m]

\* `yield res_node` placed after the outer loop: every remaining record is
\* normalized first and only the last res_node is yielded.
RunToYieldDedented(g, m) ==
    LET items == g.doc.nodes.items
        rest  == (g.idx + 1) .. Len(items)
        bad   == {j \in rest : items[j].type # "dict"
                               \/ ~Translate(items[j].fields, 1, EmptyDict, m).ok}
    IN  IF rest = {}
        THEN [g |-> [g EXCEPT !.pc = "done"],
              ev |-> Event("stop", EmptyDict, "StopIteration", ""), m |-> m]
        ELSE IF bad # {}
        THEN LET j == CHOOSE x \in bad : \A y \in bad : x <= y
                 r == IF items[j].type = "dict"
                      THEN Translate(items[j].fields, 1, EmptyDict, m)
                      ELSE [ok |-> FALSE, res |-> EmptyDict, field |-> ""]
             IN  Raised([g EXCEPT !.idx = j], r.res,
                        IF items[j].type = "dict" THEN "ValueError" ELSE "AttributeError",
                        ErrorField(r.field), m)
        ELSE LET r == Translate(items[Len(items)].fields, 1, EmptyDict, m)
             IN  [g |-> [g EXCEPT !.pc = "suspended", !.idx = Len(items), !.res_node = r.res],
                  ev |-> Event("yield", r.res, "", ""), m |-> m]

\* One turn of `for src_node in src_nodes:` up to `yield res_node`.
RunToYield(g, m) ==
    LET items == g.doc.nodes.items
    IN  IF g.idx = Len(items)
        THEN \* the iterator is exhausted: the body returns
             [g |-> [g EXCEPT !.pc = "done"],
              ev |-> Event("stop", EmptyDict, "StopIteration", ""), m |-> m]
        ELSE LET src_node == items[g.idx + 1]
                 g1 == [g EXCEPT !.idx = g.idx + 1]
             IN  IF src_node.type # "dict"
                 THEN \* src_node.items() on a str
                      Raised(g1, EmptyDict, "AttributeError", "", m)
                 ELSE LET r == Translate(src_node.fields, 1, EmptyDict, m)
                      IN  IF r.ok
                          THEN [g |-> [g1 EXCEPT !.pc = "suspended", !.res_node = r.res],
                                ev |-> Event("yield", r.res, "", ""), m |-> m]
                          ELSE Raised(g1, r.res, "ValueError", ErrorField(r.field),
                                      MapAfterMiss(m, r.field))

\* The first next(): json.load(f), sinfo_data["nodes"], iter(src_nodes).
Start(g, m) ==
    IF ~g.doc.hasNodes
    THEN Raised(g, EmptyDict, "KeyError", "nodes", m)
    ELSE IF g.doc.nodes.type \notin {"list", "dict", "str"}
    THEN Raised(g, EmptyDict, "TypeError", "", m)
    ELSE RunToYield(g, m)

\* next() on a generator that has returned or raised
Finished(g, m) ==
    [g |-> g, ev |-> Event("stop", EmptyDict, "StopIteration", ""), m |-> m]

\* generator.__next__
Step(g, m) ==
    CASE g.pc = "created"   -> Start(g, m)
      [] g.pc = "suspended" -> RunToYield(g, m)
      [] OTHER              -> Finished(g, m)

(***************************************************************************)
(* Decoded reports: what json.load(f) returns.                             *)
(***************************************************************************)
Obj(fields) == [type |-> "dict", fields |-> fields]

StrElem == [type |-> "str", fields |-> <<>>]

JList(items) == [type |-> "list", items |-> items]

Report(items) == [hasNodes |-> TRUE, nodes |-> JList(items)]

NoDoc == [hasNodes |-> FALSE, nodes |-> [type |-> "null", items |-> <<>>]]

\* {"nodes": [{"name": "node1", "real_memory": 1800, "state": "down",
\*             "architecture": "x86_64"}]}
SpecExampleNode ==
    Obj(<< <<"name", "node1">>, <<"real_memory", "1800">>,
           <<"state", "down">>, <<"architecture", "x86_64">> >>)

\* the node of the docstring
DocstringNode ==
    Obj(<< <<"architecture", "x86_64">>,
           <<"burstbuffer_network_address", "">>,
           <<"boards", "1">>,
           <<"boot_time", "1679345346">>,
           <<"comment", "">>,
           <<"cores", "20">>,
           <<"cpu_binding", "0">>,
           <<"cpu_load", "2000">>,
           <<"extra", "">>,
           <<"free_memory", "246">>,
           <<"cpus", "40">>,
           <<"last_busy", "1681387881">>,
           <<"features", "x86_64,turing,48gb">>,
           <<"active_features", "x86_64,turing,48gb">>,
           <<"gres", "gpu:rtx8000:8(S:0-1)">>,
           <<"gres_drained", "N/A">>,
           <<"gres_used", "gpu:rtx8000:8(IDX:0-7),tpu:0">>,
           <<"mcs_label", "">>,
           <<"name", "node_name">>,
           <<"next_state_after_reboot", "invalid">>,
           <<"address", "node_addr">>,
           <<"hostname", "node_hostname">>,
           <<"state", "down">>,
           <<"state_flags", "[DRAIN]">>,
           <<"next_state_after_reboot_flags", "[]">>,
           <<"operating_system", "Linux 4.15.0-194-generic">>,
           <<"owner", "null">>,
           <<"partitions", "[debug]">>,
           <<"port", "6812">>,
           <<"real_memory", "1800">>,
           <<"reason", "Sanity Check Failed">>,
           <<"reason_changed_at", "1679695880">>,
           <<"reason_set_by_user", "root">>,
           <<"slurmd_start_time", "1679345380">>,
           <<"sockets", "1">>,
           <<"threads", "1">>,
           <<"temporary_disk", "0">>,
           <<"weight", "1">>,
           <<"tres", "cpu=40,mem=386618M,billing=96,gres/gpu=8">>,
           <<"slurmd_version", "23.02.1-ex">>,
           <<"alloc_memory", "0">>,
           <<"alloc_cpus", "0">>,
           <<"idle_cpus", "2">>,
           <<"tres_used", "cpu=26,mem=249G,gres/gpu=8">>,
           <<"tres_weighted", "0">> >>)

FutureFieldNode ==
    Obj(<< <<"name", "node2">>, <<"new_future_field", "1">>, <<"state", "idle">> >>)

ExampleReports ==
    { Report(<<SpecExampleNode>>),
      Report(<<DocstringNode>>),
      Report(<<FutureFieldNode>>),
      Report(<<SpecExampleNode, DocstringNode, FutureFieldNode, SpecExampleNode>>) }

\* Reports whose envelope is not {"nodes": [...]}: no "nodes" key, and "nodes"
\* bound to null, a number, a boolean, "", "ab", {} and {"a": {...}}.
\* Iterating a dict gives its keys and iterating a str its characters.
EnvelopeReports ==
    { [hasNodes |-> FALSE, nodes |-> [type |-> "null", items |-> <<>>]],
      [hasNodes |-> TRUE, nodes |-> [type |-> "null", items |-> <<>>]],
      [hasNodes |-> TRUE, nodes |-> [type |-> "num", items |-> <<>>]],
      [hasNodes |-> TRUE, nodes |-> [type |-> "bool", items |-> <<>>]],
      [hasNodes |-> TRUE, nodes |-> [type |-> "str", items |-> <<>>]],
      [hasNodes |-> TRUE, nodes |-> [type |-> "str", items |-> <<StrElem, StrElem>>]],
      [hasNodes |-> TRUE, nodes |-> [type |-> "dict", items |-> <<>>]],
      [hasNodes |-> TRUE, nodes |-> [type |-> "dict", items |-> <<StrElem>>]] }

\* Generated records: every order of up to MaxFields distinct keys, one of
\* them copied, one renamed, one ignored and one not in NODE_FIELD_MAP.
FamilyValue ==
       "name" :> "cn-a001"
    @@ "address" :> "10.0.0.1"
    @@ "hostname" :> "cn-a001.cluster"
    @@ "new_future_field" :> "1"

FamilyKeys == DOMAIN FamilyValue

KeySeqs(n) == {s \in [1..n -> FamilyKeys] : \A i, j \in 1..n : i # j => s[i] # s[j]}

FamilyRecords ==
    {Obj([i \in 1..Len(s) |-> <<s[i], FamilyValue[s[i]]>>]) :
        s \in UNION {KeySeqs(n) : n \in 0..MaxFields}}

SeqsUpTo(S, n) == UNION {[1..k -> S] : k \in 0..n}

FamilyReports == {Report(items) : items \in SeqsUpTo(FamilyRecords, MaxNodes)}

Reports == ExampleReports \cup EnvelopeReports \cup FamilyReports

\* Reports of the two-parse specification: records of one field each.
PairRecords == {Obj(<< <<k, FamilyValue[k]>> >>) : k \in FamilyKeys}

PairReports == {Report(items) : items \in SeqsUpTo(PairRecords, MaxNodes)}

(***************************************************************************)
(* The state machine.                                                      *)
(***************************************************************************)
NoGen == [pc |-> "none", doc |-> NoDoc, idx |-> 0, res_node |-> EmptyDict]

Init ==
    /\ fieldMap = NODE_FIELD_MAP
    /\ gen = [p \in Procs |-> NoGen]
    /\ out = [p \in Procs |-> <<>>]

\* node_parser(f): the call builds the generator object and runs none of the body
\* f holds one of the reports `docs`
Call(p, docs) ==
    /\ gen[p].pc = "none"
    /\ \E doc \in docs :
           gen' = [gen EXCEPT ![p] = [pc |-> "created", doc |-> doc, idx |-> 0,
                                      res_node |-> EmptyDict]]
    /\ UNCHANGED <<fieldMap, out>>

Terminal(e) == e.kind \in {"raise", "stop"}

EndEvents(p) == {i \in 1..Len(out[p]) : Terminal(out[p][i])}

\* next(gen[p]) by its consumer
Pull(p) ==
    /\ gen[p].pc # "none"
    /\ Cardinality(EndEvents(p)) <= MaxExtraPulls
    /\ LET s == Step(gen[p], fieldMap)
       IN  /\ gen' = [gen EXCEPT ![p] = s.g]
           /\ out' = [out EXCEPT ![p] = Append(@, s.ev)]
           /\ fieldMap' = s.m

\* one parse
Next ==
    \/ Call(1, Reports)
    \/ Pull(1)

Spec == Init /\ [][Next]_vars

\* two parses, their pulls interleaved
NextPair ==
    \/ \E p \in Procs : Call(p, PairReports)
    \/ \E p \in Procs : Pull(p)

SpecPair == Init /\ [][NextPair]_vars

(***************************************************************************)
(* Vocabulary of the properties.                                           *)
(***************************************************************************)
Min(S) == CHOOSE x \in S : \A y \in S : x <= y

\* the report has the envelope {"nodes": [...]}
IsList(doc) == doc.hasNodes /\ doc.nodes.type = "list"

Raws(p) == gen[p].doc.nodes.items

KeysOf(rec) == {rec.fields[i][1] : i \in DOMAIN rec.fields}

ValueOf(rec, k) == rec.fields[CHOOSE i \in DOMAIN rec.fields : rec.fields[i][1] = k][2]

\* positions of the fields of a raw record that NODE_FIELD_MAP does not hold
UnknownIdx(rec) == {i \in DOMAIN rec.fields : rec.fields[i][1] \notin DOMAIN NODE_FIELD_MAP}

HasUnknown(rec) == UnknownIdx(rec) # {}

FirstUnknown(rec) == rec.fields[Min(UnknownIdx(rec))][1]

\* positions of the raw records of a report that hold an unknown field
BadIdx(doc) == {j \in DOMAIN doc.nodes.items : HasUnknown(doc.nodes.items[j])}

YieldIdx(p) == {i \in DOMAIN out[p] : out[p][i].kind = "yield"}

\* what node_parser makes of one raw record whose keys are all known
Canonical(rec) == Translate(rec.fields, 1, EmptyDict, NODE_FIELD_MAP).res

(***************************************************************************)
(* C1.  A raw record holding a key absent from NODE_FIELD_MAP makes the    *)
(* pull that normalizes it fail with a ValueError naming the (first)       *)
(* absent key, wherever that key stands among the fields; the record built *)
(* for it is not yielded: every yield of the parse came before that pull.  *)
(***************************************************************************)
C1_UnknownFieldFails ==
    \A p \in Procs :
        IsList(gen[p].doc) =>
            \A j \in 1..gen[p].idx :
                HasUnknown(Raws(p)[j]) =>
                    /\ Len(out[p]) >= j
                    /\ out[p][j] = Event("raise", EmptyDict, "ValueError",
                                         FirstUnknown(Raws(p)[j]))
                    /\ \A i \in YieldIdx(p) : i < j

\* a parse has failed on an unknown field that was not the first field of its
\* record, so that res_node already held translated fields
C1_Witness ==
    \E p \in Procs :
        /\ gen[p].pc = "failed"
        /\ IsList(gen[p].doc)
        /\ gen[p].idx >= 1
        /\ HasUnknown(Raws(p)[gen[p].idx])
        /\ gen[p].res_node # EmptyDict
        /\ out[p][Len(out[p])].kind = "raise"

(***************************************************************************)
(* C2.  A report of N records with known keys only, consumed to the end,   *)
(* yields exactly N records in source order, the i-th being the reference  *)
(* translation of the i-th raw record: copied fields under their own key,  *)
(* architecture, real_memory and address under arch, memory and addr,      *)
(* ignored fields under no key, values unchanged, no other key.  The       *)
(* record {name: node1, real_memory: 1800, state: down, architecture:      *)
(* x86_64} yields {name: node1, memory: 1800, state: down, arch: x86_64}.  *)
(***************************************************************************)
RefKey(k) ==
    CASE k = "architecture" -> "arch"
      [] k = "real_memory"  -> "memory"
      [] k = "address"      -> "addr"
      [] OTHER              -> k

RefTranslation(rec) ==
    LET kept == {k \in KeysOf(rec) : NODE_FIELD_MAP[k].op # "ignore"}
    IN  [o \in {RefKey(k) : k \in kept} |->
            ValueOf(rec, CHOOSE k \in kept : RefKey(k) = o)]

SpecExampleExpected ==
    [name |-> "node1", memory |-> "1800", state |-> "down", arch |-> "x86_64"]

C3_LazyEvaluation ==
    \A p \in Procs :
        IsList(gen[p].doc) =>
            LET bad == BadIdx(gen[p].doc)
                N   == Len(Raws(p))
            IN  /\ \A i \in DOMAIN out[p] :
                       /\ (i <= N /\ \A j \in bad : i < j) =>
                              out[p][i] = Event("yield", Canonical(Raws(p)[i]), "", "")
                       /\ (bad # {} /\ i = Min(bad)) => out[p][i].kind = "raise"
                /\ gen[p].pc = "suspended" =>
                       /\ gen[p].idx = Len(out[p])
                       /\ gen[p].res_node = Canonical(Raws(p)[gen[p].idx])

\* the parse of a four-record report has failed on its third record after two
\* records were yielded, the fourth never read
C3_Witness ==
    \E p \in Procs :
        /\ IsList(gen[p].doc)
        /\ Len(Raws(p)) = 4
        /\ BadIdx(gen[p].doc) = {3}
        /\ gen[p].pc = "failed"
        /\ gen[p].idx = 3
        /\ YieldIdx(p) = {1, 2}

(***************************************************************************)
(* C4.  As stated: a report holding a record with an unknown field yields  *)
(* no canonical record at all.                                             *)
(***************************************************************************)
C4_NoRecordYielded ==
    \A p \in Procs :
        (IsList(gen[p].doc) /\ BadIdx(gen[p].doc) # {}) => YieldIdx(p) = {}

(***************************************************************************)
(* C4, amended.  With record k the first one holding an unknown field: no  *)
(* canonical record is yielded for record k or any later record; a parse   *)
(* that has ended has yielded the k-1 records before it and failed on pull *)
(* k with a ValueError naming the first unknown field of record k.         *)
(***************************************************************************)
C4_NoRecordFromFirstBadOn ==
    \A p \in Procs :
        (IsList(gen[p].doc) /\ BadIdx(gen[p].doc) # {}) =>
            LET k == Min(BadIdx(gen[p].doc))
            IN  /\ \A i \in YieldIdx(p) : i < k
                /\ gen[p].pc # "done"
                /\ gen[p].pc = "failed" =>
                       /\ Len(out[p]) >= k
                       /\ YieldIdx(p) = 1..(k - 1)
                       /\ out[p][k].kind = "raise"
                       /\ out[p][k].exc = "ValueError"
                       /\ out[p][k].field = FirstUnknown(Raws(p)[k])

\* a parse has ended on the second record of its report, the first yielded
C4_Witness ==
    \E p \in Procs :
        /\ IsList(gen[p].doc)
        /\ BadIdx(gen[p].doc) # {}
        /\ Min(BadIdx(gen[p].doc)) = 2
        /\ gen[p].pc = "failed"
        /\ YieldIdx(p) = {1}

(***************************************************************************)
(* C5.  A report without the key "nodes", or whose "nodes" is not a list,  *)
(* makes the first pull fail before any record is read or yielded; the     *)
(* parse never ends normally.                                              *)
(***************************************************************************)
C5_MalformedEnvelopeRejected ==
    \A p \in Procs :
        (gen[p].pc # "none" /\ ~IsList(gen[p].doc)) =>
            /\ gen[p].pc # "done"
            /\ YieldIdx(p) = {}
            /\ Len(out[p]) >= 1 => out[p][1].kind = "raise"

(***************************************************************************)
(* C6.  A canonical record made from a raw record carrying name and        *)
(* address holds both under the keys name and address, values unchanged;   *)
(* the node of the docstring gives exactly the keys the docstring lists as *)
(* expected output.                                                        *)
(***************************************************************************)
DocstringExpectedKeys ==
    {"arch", "comment", "cores", "cpus", "last_busy", "features", "gres", "name",
     "address", "state", "memory", "reason", "reason_changed_at", "tres", "tres_used"}

C6_NaturalKeyNameAddress ==
    \A p \in Procs :
        IsList(gen[p].doc) =>
            \A i \in YieldIdx(p) :
                LET raw == Raws(p)[i]
                    rec == out[p][i].rec
                IN  /\ {"name", "address"} \subseteq KeysOf(raw) =>
                           /\ {"name", "address"} \subseteq DOMAIN rec
                           /\ rec["name"] = ValueOf(raw, "name")
                           /\ rec["address"] = ValueOf(raw, "address")
                    /\ raw = DocstringNode => DOMAIN rec = DocstringExpectedKeys

(***************************************************************************)
(* C7.  Two parses share no mutable state: however their pulls interleave, *)
(* each consumer has got exactly what it would have got from the same      *)
(* number of pulls on a parse running alone, its generator is in the state *)
(* it would then be in, and NODE_FIELD_MAP is as it was at import.         *)
(***************************************************************************)
RECURSIVE SoloRun(_, _, _, _)
SoloRun(g, m, evs, n) ==
    IF n = 0
    THEN [g |-> g, out |-> evs]
    ELSE LET s == Step(g, m)
         IN  SoloRun(s.g, s.m, Append(evs, s.ev), n - 1)

Alone(doc, n) ==
    SoloRun([pc |-> "created", doc |-> doc, idx |-> 0, res_node |-> EmptyDict],
            NODE_FIELD_MAP, <<>>, n)

C7_ParsesIndependent ==
    /\ fieldMap = NODE_FIELD_MAP
    /\ \A p \in Procs :
           gen[p].pc # "none" =>
               LET a == Alone(gen[p].doc, Len(out[p]))
               IN  out[p] = a.out /\ gen[p] = a.g

\* two parses of the same report, whose second record holds an unknown field:
\* one has failed on it while the other is parked after the first record
C7_Witness ==
    /\ gen[1].doc = gen[2].doc
    /\ BadIdx(gen[1].doc) # {}
    /\ Min(BadIdx(gen[1].doc)) = 2
    /\ gen[1].pc = "failed"
    /\ gen[2].pc = "suspended"

(***************************************************************************)
(* C8.  Once a pull has failed on an unknown field the parse is over: the  *)
(* generator stays finished and every later pull ends at once, yielding    *)
(* nothing.                                                                *)
(***************************************************************************)
C8_AbortedAfterFailure ==
    \A p \in Procs :
        \A i \in DOMAIN out[p] :
            (out[p][i].kind = "raise" /\ out[p][i].exc = "ValueError") =>
                /\ gen[p].pc = "failed"
                /\ gen[p].idx = i
                /\ \A j \in DOMAIN out[p] : j > i => out[p][j].kind = "stop"

\* a parse failed on an unknown field with records left unread, and was
\* pulled again
C8_Witness ==
    \E p \in Procs : \E i \in DOMAIN out[p] :
        /\ out[p][i].kind = "raise"
        /\ out[p][i].exc = "ValueError"
        /\ i < Len(out[p])
        /\ i < Len(Raws(p))
        /\ ~HasUnknown(Raws(p)[i + 1])

(***************************************************************************)
(* C10.  The assignment of output keys by NODE_FIELD_MAP is injective on   *)
(* the fields it does not ignore: a rename target is no key of another     *)
(* field of the table and no other rename target.  So a yielded record has *)
(* as many keys as its raw record has fields that are not ignored, and is  *)
(* the same whichever two fields of the raw record change places.          *)
(***************************************************************************)
OutKey(m, k) == IF m[k].op = "rename" THEN m[k].to ELSE k

Swap(s, a, b) ==
    [i \in DOMAIN s |-> IF i = a THEN s[b] ELSE IF i = b THEN s[a] ELSE s[i]]

C10_OutputKeysInjective ==
    /\ \A k \in DOMAIN fieldMap :
           fieldMap[k].op = "rename" => fieldMap[k].to \notin (DOMAIN fieldMap) \ {k}
    /\ LET kept == {k \in DOMAIN fieldMap : fieldMap[k].op # "ignore"}
       IN  Cardinality({OutKey(fieldMap, k) : k \in kept}) = Cardinality(kept)
    /\ \A p \in Procs :
           IsList(gen[p].doc) =>
               \A i \in YieldIdx(p) :
                   LET f   == Raws(p)[i].fields
                       rec == out[p][i].rec
                   IN  /\ Cardinality(DOMAIN rec) =
                              Cardinality({j \in DOMAIN f : fieldMap[f[j][1]].op # "ignore"})
                       /\ \A a, b \in DOMAIN f :
                              a < b => Translate(Swap(f, a, b), 1, EmptyDict, fieldMap).res = rec

\* a record with a copied, a renamed and an ignored field has been yielded
C10_Witness ==
    \E p \in Procs : \E i \in YieldIdx(p) :
        \E k1, k2, k3 \in KeysOf(Raws(p)[i]) :
            /\ fieldMap[k1].op = "copy"
            /\ fieldMap[k2].op = "rename"
            /\ fieldMap[k3].op = "ignore"

=============================================================================
